---- MODULE Spec2Model ----
(***************************************************************************)
(* FDSNtools.py (cache key builder, get_inventory, get_stream) and         *)
(* wrappers.py (the day loops and the spectrogram window loops).           *)
(*                                                                         *)
(* Four specifications share this module, one per part of the program:     *)
(*   SpecKey    the cache key builder applied to pairs of requests         *)
(*   SpecFetch  get_inventory and get_stream called directly               *)
(*   SpecDay    FDSN_to_SDS_daily_wrapper and SDS_to_RSAM_wrapper          *)
(*   SpecSgram  the spectrogram window loops                               *)
(* The variables of the parts a specification does not run stay at their   *)
(* idle values.                                                            *)
(***************************************************************************)
EXTENDS Integers, Sequences, FiniteSets, TLC

VARIABLES
    cacheDir,                       \* CACHE_DIR on disk: "absent", "dir" or "file"
    kKind, kReqA, kReqB, kNameA, kNameB, kRaised,
    fop, fpc, fArgs, fileBefore, file, remote, acc, idx, readFile, ret,
    wrapper, wpc, startt, endt, nDays, wArgs, trace_ids, inv, iters, reads,
    writes, stations, dayLog,
    driver, spc, sotw, nWin, sOverwrite, sgFiles, sgFiles0, winLog

keyVars   == <<kKind, kReqA, kReqB, kNameA, kNameB, kRaised>>
fetchVars == <<fop, fpc, fArgs, fileBefore, file, remote, acc, idx, readFile, ret>>
dayVars   == <<wrapper, wpc, startt, endt, nDays, wArgs, trace_ids, inv,
               iters, reads, writes, stations, dayLog>>
sgramVars == <<driver, spc, sotw, nWin, sOverwrite, sgFiles, sgFiles0, winLog>>
vars      == <<cacheDir, keyVars, fetchVars, dayVars, sgramVars>>

----------------------------------------------------------------------------
(* Bounds of the model.                                                    *)

\* Largest |coordinate|, in fifths of the last printed decimal place.
MaxCoord == 3
\* Longest channel identifier list.
MaxIds == 3
\* Most segments one get_waveforms call returns.
MaxSegs == 2
\* Longest day range a wrapper is run over.
MaxDays == 2
\* Most spectrogram windows in one run.
MaxWin == 2

----------------------------------------------------------------------------
(* Values.                                                                 *)

\* Channel identifiers "net.sta.loc.chan", in sort order.
IdOrder == <<"IU.A.00.BHZ", "IU.B.00.BHZ">>
Ids == {IdOrder[i] : i \in 1..Len(IdOrder)}

RECURSIVE SeqsUpTo(_, _)
SeqsUpTo(S, n) ==
    IF n = 0 THEN {<<>>}
    ELSE LET shorter == SeqsUpTo(S, n - 1)
         IN  shorter \cup {Append(s, x) : s \in {t \in shorter : Len(t) = n - 1}, x \in S}

\* trace_ids arguments: ordered lists, duplicates allowed.
TraceLists == SeqsUpTo(Ids, MaxIds)

Abs(x) == IF x < 0 THEN -x ELSE x

----------------------------------------------------------------------------
(* Cache Key Builder: FDSNtools.py lines 21-31.                            *)

secsPerDay == 86400

\* UTCDateTime.strftime('%Y%m%d%H%M') of a time given in seconds: the date,
\* the hour and the minute; the seconds are not printed.
Strftime(t) == <<t \div 86400, (t \div 3600) % 24, (t \div 60) % 60>>

\* '%.4f' / '%.2f' of a value given in fifths of the last printed decimal:
\* the sign character of the value and the magnitude rounded to nearest.
\* A negative value that rounds to zero prints as "-0.0000".
FmtFixed(k) == [neg |-> k < 0, mag |-> (2 * Abs(k) + 5) \div 10]

\* The number a printed value denotes (-0.0000 and 0.0000 are both 0).
RoundVal(k) == IF k < 0 THEN -((2 * Abs(k) + 5) \div 10) ELSE (2 * Abs(k) + 5) \div 10

\* _make_cache_dir: mkdir unless the directory is there; mkdir raises when a
\* file of that name is in the way.
MakeCacheDirRaises(d) == d = "file"
MakeCacheDir(d) == IF d = "absent" THEN "dir" ELSE d

\* _get_stationXML_filename, as the fields joined by "_".
StationXMLName_noLon(startt_, endt_, lat, lon, rad) ==
    <<Strftime(startt_), Strftime(endt_), FmtFixed(lat), FmtFixed(rad), "SML">>
StationXMLName(startt_, endt_, lat, lon, rad) ==
    <<Strftime(startt_), Strftime(endt_), FmtFixed(lat), FmtFixed(lon), FmtFixed(rad), "SML">>

\* _get_MSEED_filename: the times and trace_ids[0], trace_ids[-1].
MSEEDName(startt_, endt_, ids) ==
    <<Strftime(startt_), Strftime(endt_), ids[1], ids[Len(ids)], "MSEED">>

\* Requests the key builder is applied to.  Times in seconds: 0 and 59 share a
\* minute, 60 is the next minute, 90000 is another day and hour.
KeyTimes == {0, 59, 60, 90000}
Coords == (-MaxCoord)..MaxCoord
KeyLons == {-1, 3}
KeyRads == {1, 3}
SMLRequests ==
    [startt : KeyTimes, endt : KeyTimes, lat : Coords, lon : KeyLons, rad : KeyRads]
MSEEDRequests == [startt : KeyTimes, endt : KeyTimes, ids : TraceLists \ {<<>>}]
ValidRange(r) == r.startt < r.endt

NoName == <<>>
NoReq == [startt |-> 0, endt |-> 0]

----------------------------------------------------------------------------
(* Sampling rates, as exact fractions n/d in Hz.                           *)

RECURSIVE GCD(_, _)
GCD(a, b) == IF b = 0 THEN a ELSE GCD(b, a % b)

Rate(n) == [n |-> n, d |-> 1]
\* The float nan: what numpy's nanmean gives for an empty list.
NaN == [n |-> 0, d |-> 0]
NormQ(n, d) == LET g == GCD(n, d) IN [n |-> n \div g, d |-> d \div g]
AddQ(a, b) == NormQ(a.n * b.d + b.n * a.d, a.d * b.d)

RECURSIVE SumQ(_)
SumQ(rs) == IF rs = <<>> THEN [n |-> 0, d |-> 1] ELSE AddQ(rs[1], SumQ(Tail(rs)))

\* np.nanmean of a list of sampling rates.
nanmean(rs) ==
    IF rs = <<>> THEN NaN
    ELSE LET s == SumQ(rs) IN NormQ(s.n, s.d * Len(rs))

SampleRates == {50, 100}

----------------------------------------------------------------------------
(* Waveform collections (obspy Stream): a list of segments (Trace), each   *)
(* with the identifier and the sampling rate of its stats.                 *)

Segments(id, rates) == [i \in 1..Len(rates) |-> [id |-> id, sr |-> Rate(rates[i])]]
RatesOf(s) == [i \in 1..Len(s) |-> s[i].sr]
SetRate(s, f) == [i \in 1..Len(s) |-> [s[i] EXCEPT !.sr = f]]

\* Stream.merge raises when two segments of one identifier differ in sampling
\* rate; a nan rate differs from every rate, itself included.
MergeRaises(s) ==
    \/ \E i \in 1..Len(s) : s[i].sr = NaN
    \/ \E i, j \in 1..Len(s) : s[i].id = s[j].id /\ s[i].sr # s[j].sr

\* Stream.merge(fill_value=0, method=1) when it does not raise: one segment
\* per identifier, in identifier order.
RECURSIVE MergedFrom(_, _)
MergedFrom(s, k) ==
    IF k > Len(IdOrder) THEN <<>>
    ELSE LET mine == SelectSeq(s, LAMBDA x : x.id = IdOrder[k])
         IN  (IF mine = <<>> THEN <<>> ELSE <<mine[1]>>) \o MergedFrom(s, k + 1)
Merged(s) == MergedFrom(s, 1)

\* What one get_waveforms call does: it raises, or returns up to MaxSegs
\* segments of the identifier asked for.
WaveOutcomes ==
    {[ok |-> FALSE, rates |-> <<>>]}
        \cup {[ok |-> TRUE, rates |-> r] : r \in SeqsUpTo(SampleRates, MaxSegs)}

\* A cache file: absent, or holding what was written.
Absent == [exists |-> FALSE, data |-> <<>>]
Stored(d) == [exists |-> TRUE, data |-> d]

\* A return value: None, or a value.
None == [some |-> FALSE, data |-> <<>>]
Some(d) == [some |-> TRUE, data |-> d]

----------------------------------------------------------------------------
(* get_inventory: FDSNtools.py lines 34-69.                                *)

\* The cache test of both fetchers: os.path.isfile(...) and not overwrite.
UseCache_ignoreOverwrite(f, overwrite) == f.exists
UseCache(f, overwrite) == f.exists /\ ~overwrite

\* An inventory is modelled by the channel identifiers it lists.
RECURSIVE IdsFrom(_, _)
IdsFrom(S, k) ==
    IF k > Len(IdOrder) THEN <<>>
    ELSE (IF IdOrder[k] \in S THEN <<IdOrder[k]>> ELSE <<>>) \o IdsFrom(S, k + 1)
Inventories == {IdsFrom(S, 1) : S \in SUBSET Ids}

\* What one get_stations call does: it raises, or returns an inventory.
InvOutcomes ==
    {[ok |-> FALSE, inv |-> <<>>]} \cup {[ok |-> TRUE, inv |-> v] : v \in Inventories}

get_inventory_cacheAlways(f, overwrite, cache, o) ==
    IF f.exists /\ ~overwrite
    THEN [ret |-> None, calls |-> 0, read |-> TRUE, file |-> f, raised |-> FALSE]
    ELSE [ret |-> IF o.ok THEN Some(o.inv) ELSE None, calls |-> 1, read |-> FALSE,
          file |-> IF o.ok THEN Stored(o.inv) ELSE f, raised |-> FALSE]

get_inventory_noTry(f, overwrite, cache, o) ==
    IF f.exists /\ ~overwrite
    THEN [ret |-> None, calls |-> 0, read |-> TRUE, file |-> f, raised |-> FALSE]
    ELSE [ret |-> IF o.ok THEN Some(o.inv) ELSE None, calls |-> 1, read |-> FALSE,
          file |-> IF cache /\ o.ok THEN Stored(o.inv) ELSE f, raised |-> ~o.ok]

\* The whole call: f is the file at the derived name, o what get_stations
\* does if it is called.  On the cache branch inv is assigned and the function
\* ends without a return statement, so the caller gets None.
get_inventory(f, overwrite, cache, o) ==
    IF UseCache(f, overwrite)
    THEN [ret |-> None, calls |-> 0, read |-> TRUE, file |-> f, raised |-> FALSE]
    ELSE IF ~o.ok
    THEN [ret |-> None, calls |-> 1, read |-> FALSE, file |-> f, raised |-> FALSE]
    ELSE [ret |-> Some(o.inv), calls |-> 1, read |-> FALSE,
          file |-> IF cache THEN Stored(o.inv) ELSE f, raised |-> FALSE]

----------------------------------------------------------------------------
(* get_stream: FDSNtools.py lines 73-136.                                  *)

NoRepair == [pass |-> "none", inRates |-> <<>>, outRates |-> <<>>]

\* The locals of the remote branch before the identifier loop.  asked lists
\* the identifiers get_waveforms was called for, got collects those whose
\* query returned data; repair describes the rate normalisation of the latest
\* step, if it made one.
StreamStart ==
    [st |-> <<>>, this_st |-> <<>>, calls |-> 0, asked |-> <<>>, got |-> {},
     repair |-> NoRepair, raised |-> FALSE]

\* Rate normalisation after a failed merge of collection s: every segment of
\* s gets the mean rate of the segments of `from`.
Normalised(s, from) == SetRate(s, nanmean(RatesOf(from)))

\* One pass of the identifier loop (lines 87-115) for identifier id, o being
\* what get_waveforms does.  When the first merge raises, "st += this_st"
\* (line 109, after it in the try block) is skipped: the repaired result is
\* left in this_st only.
StreamStep(a, id, o) ==
    LET fresh == Segments(id, o.rates)
        b == [a EXCEPT !.calls = @ + 1, !.asked = Append(@, id), !.repair = NoRepair]
    IN  IF ~o.ok \/ fresh = <<>>
        THEN [b EXCEPT !.this_st = <<>>]
        ELSE IF ~MergeRaises(fresh)
        THEN [b EXCEPT !.this_st = Merged(fresh), !.st = a.st \o Merged(fresh),
                       !.got = @ \cup {id}]
        ELSE LET fixed == Normalised(fresh, fresh)
                 done == IF MergeRaises(fixed) THEN fixed ELSE Merged(fixed)
             IN  [b EXCEPT !.this_st = done,
                           !.got = @ \cup {id},
                           !.raised = MergeRaises(fixed),
                           !.repair = [pass |-> "id", inRates |-> RatesOf(fresh),
                                       outRates |-> RatesOf(done)]]

\* After the loop (lines 121-136): the whole-collection merge, its repair,
\* the cache write and the return.  The repair takes the mean over this_st,
\* the result of the last identifier (line 128), and gives it to st.
StreamFinish(a, cache, f) ==
    IF a.st = <<>>
    THEN [acc |-> [a EXCEPT !.repair = NoRepair], ret |-> Some(<<>>), file |-> f]
    ELSE IF ~MergeRaises(a.st)
    THEN [acc |-> [a EXCEPT !.repair = NoRepair, !.st = Merged(a.st)],
          ret |-> Some(Merged(a.st)),
          file |-> IF cache THEN Stored(Merged(a.st)) ELSE f]
    ELSE LET fixed == Normalised(a.st, a.this_st)
             rep == [pass |-> "all", inRates |-> RatesOf(a.st),
                     outRates |-> RatesOf(fixed)]
         IN  IF MergeRaises(fixed)
             THEN [acc |-> [a EXCEPT !.repair = rep, !.st = fixed, !.raised = TRUE],
                   ret |-> None, file |-> f]
             ELSE [acc |-> [a EXCEPT !.repair = [rep EXCEPT !.outRates = RatesOf(Merged(fixed))],
                                     !.st = Merged(fixed)],
                   ret |-> Some(Merged(fixed)),
                   file |-> IF cache THEN Stored(Merged(fixed)) ELSE f]

RECURSIVE StreamLoop(_, _, _, _)
StreamLoop(a, ids, outs, i) ==
    IF i > Len(ids) \/ a.raised THEN a
    ELSE StreamLoop(StreamStep(a, ids[i], outs[i]), ids, outs, i + 1)

\* The branch a call takes (lines 78-86).  trace_ids[0] of an empty list
\* raises IndexError in _get_MSEED_filename.
StreamPath(ids, overwrite, f) ==
    IF ids = <<>> THEN "raise"
    ELSE IF UseCache(f, overwrite) THEN "cache"
    ELSE "remote"

\* The whole call: f is the file at the derived name, outs what get_waveforms
\* does at each identifier.
get_stream(ids, overwrite, cache, f, outs) ==
    IF StreamPath(ids, overwrite, f) = "raise"
    THEN [acc |-> [StreamStart EXCEPT !.raised = TRUE], ret |-> None, file |-> f,
          read |-> FALSE]
    ELSE IF StreamPath(ids, overwrite, f) = "cache"
    THEN [acc |-> StreamStart, ret |-> Some(f.data), file |-> f, read |-> TRUE]
    ELSE LET a == StreamLoop(StreamStart, ids, outs, 1)
             r == StreamFinish(a, cache, f)
         IN  IF a.raised
             THEN [acc |-> a, ret |-> None, file |-> f, read |-> FALSE]
             ELSE [acc |-> r.acc, ret |-> r.ret, file |-> r.file, read |-> FALSE]

----------------------------------------------------------------------------
(* SpecFetch: the two fetchers called directly (no wrapper is running:     *)
(* the program is single-threaded), any number of times.  A                *)
(* call sees the cache file at its derived name in any state earlier runs  *)
(* can have left it in.  get_stream runs one identifier per step.          *)

InvFiles == {Absent} \cup {Stored(v) : v \in Inventories}
StoredStreams ==
    {Segments(IdOrder[1], <<50>>),
     Segments(IdOrder[1], <<100>>) \o Segments(IdOrder[2], <<50>>)}
StreamFiles == {Absent} \cup {Stored(v) : v \in StoredStreams}

\* remote: what the get_stations call of the latest get_inventory did.
NotCalled == [ok |-> FALSE, inv |-> <<"not called">>]

NoArgs == [ids |-> <<>>, overwrite |-> FALSE, cache |-> FALSE]

FetchIdle ==
    /\ fop = "idle" /\ fpc = "idle" /\ fArgs = NoArgs
    /\ fileBefore = Absent /\ file = Absent /\ remote = NotCalled
    /\ acc = StreamStart /\ idx = 0 /\ readFile = FALSE /\ ret = None

InventoryCall ==
    /\ wpc = "idle"
    /\ fpc \in {"idle", "done"}
    /\ \E overwrite \in BOOLEAN, cache \in BOOLEAN, f \in InvFiles, o \in InvOutcomes :
         LET r == get_inventory(f, overwrite, cache, o)
         IN  /\ fop' = "inventory"
             /\ fpc' = "done"
             /\ fArgs' = [NoArgs EXCEPT !.overwrite = overwrite, !.cache = cache]
             /\ fileBefore' = f
             /\ file' = r.file
             /\ remote' = IF r.calls = 0 THEN NotCalled ELSE o
             /\ acc' = [StreamStart EXCEPT !.calls = r.calls, !.raised = r.raised]
             /\ idx' = 0
             /\ readFile' = r.read
             /\ ret' = r.ret
    /\ cacheDir' = MakeCacheDir(cacheDir)
    /\ UNCHANGED <<keyVars, dayVars, sgramVars>>

StreamCall ==
    /\ wpc = "idle"
    /\ fpc \in {"idle", "done"}
    /\ \E ids \in TraceLists, overwrite \in BOOLEAN, cache \in BOOLEAN, f \in StreamFiles :
         LET path == StreamPath(ids, overwrite, f)
             r == get_stream(ids, overwrite, cache, f, <<>>)
         IN  /\ fop' = "stream"
             /\ fArgs' = [ids |-> ids, overwrite |-> overwrite, cache |-> cache]
             /\ fileBefore' = f
             /\ file' = f
             /\ remote' = NotCalled
             /\ idx' = 1
             /\ IF path = "remote"
                THEN /\ fpc' = "loop"
                     /\ acc' = StreamStart
                     /\ readFile' = FALSE
                     /\ ret' = None
                ELSE /\ fpc' = "done"
                     /\ acc' = r.acc
                     /\ readFile' = r.read
                     /\ ret' = r.ret
    /\ cacheDir' = MakeCacheDir(cacheDir)
    /\ UNCHANGED <<keyVars, dayVars, sgramVars>>

StreamIter ==
    /\ fpc = "loop"
    /\ idx <= Len(fArgs.ids)
    /\ \E o \in WaveOutcomes :
         LET a == StreamStep(acc, fArgs.ids[idx], o)
         IN  /\ acc' = a
             /\ fpc' = IF a.raised THEN "done" ELSE "loop"
    /\ idx' = idx + 1
    /\ UNCHANGED <<fop, fArgs, fileBefore, file, remote, readFile, ret>>
    /\ UNCHANGED <<cacheDir, keyVars, dayVars, sgramVars>>

StreamReturn ==
    /\ fpc = "loop"
    /\ idx > Len(fArgs.ids)
    /\ LET r == StreamFinish(acc, fArgs.cache, file)
       IN  /\ acc' = r.acc
           /\ ret' = r.ret
           /\ file' = r.file
    /\ fpc' = "done"
    /\ UNCHANGED <<fop, fArgs, fileBefore, remote, idx, readFile>>
    /\ UNCHANGED <<cacheDir, keyVars, dayVars, sgramVars>>

----------------------------------------------------------------------------
(* The day loops: wrappers.py lines 35-62 (FDSN_to_SDS_daily_wrapper) and  *)
(* lines 96-118 (SDS_to_RSAM_wrapper).  One step per statement group of an *)
(* iteration; wpc is the position in the loop.                             *)

\* InventoryTools.inventory2traceid: the identifiers the inventory lists.
inventory2traceid(v) == v.data

\* Python truth of an inventory or a list: None and the empty one are false.
Truthy(v) == v.some /\ v.data # <<>>

\* SDSobj.read returns 0 when it found data, non-zero when it found none.
ReadCodes == {0, 1}

\* The get_waveforms outcomes the day loop is run with: a failure, no data,
\* or one segment.
DayWaveOutcomes == {o \in WaveOutcomes : Len(o.rates) <= 1}

\* The trace_ids arguments the wrappers are run with: none, one identifier,
\* two, and a list that names an identifier twice.
DayTraceLists ==
    {<<>>, <<IdOrder[1]>>, <<IdOrder[1], IdOrder[2]>>,
     <<IdOrder[1], IdOrder[1], IdOrder[2]>>}

NoDay == [read |-> 0, meta |-> "none", stream |-> "none", wrote |-> FALSE]

\* while startt<endt
LoopTest(s, e) == s < e

\* Line 43: the fetch branch is taken on a non-zero read or overwrite.
Fallback_readOnly(rd, overwrite) == rd # 0
Fallback(rd, overwrite) == rd # 0 \/ overwrite

SetLast(log, e) == [log EXCEPT ![Len(log)] = e]
Last(log) == log[Len(log)]

DayIdle ==
    /\ wrapper = "none" /\ wpc = "idle" /\ startt = 0 /\ endt = 0 /\ nDays = 0
    /\ wArgs = [overwrite |-> FALSE, trace_ids |-> <<>>, inv |-> None]
    /\ trace_ids = <<>> /\ inv = None
    /\ iters = 0 /\ reads = 0 /\ writes = 0 /\ stations = 0 /\ dayLog = <<>>

\* Lines 36-47: the loop test, the archive read and the choice of branch.
DayRead ==
    /\ wrapper = "FDSN_to_SDS_daily"
    /\ wpc = "head"
    /\ LoopTest(startt, endt)
    /\ \E rd \in ReadCodes :
         /\ reads' = reads + 1
         /\ dayLog' = Append(dayLog, [NoDay EXCEPT !.read = rd])
         /\ IF ~Fallback(rd, wArgs.overwrite)
            THEN wpc' = "advance" /\ trace_ids' = trace_ids
            ELSE IF trace_ids # <<>>
            THEN wpc' = "fetch" /\ trace_ids' = trace_ids
            ELSE IF Truthy(inv)
            THEN /\ trace_ids' = inventory2traceid(inv)
                 /\ wpc' = IF inventory2traceid(inv) # <<>> THEN "fetch" ELSE "advance"
            ELSE wpc' = "meta" /\ trace_ids' = trace_ids
    /\ UNCHANGED <<wrapper, startt, endt, nDays, wArgs, inv, iters, writes, stations>>
    /\ UNCHANGED <<cacheDir, keyVars, fetchVars, sgramVars>>

\* Lines 49-53 and 57-58: the metadata query of a day without trace_ids.
DayMeta ==
    /\ wpc = "meta"
    /\ \E f \in InvFiles, o \in InvOutcomes :
         LET r == get_inventory(f, wArgs.overwrite, FALSE, o)
             ids == IF Truthy(r.ret) THEN inventory2traceid(r.ret) ELSE trace_ids
         IN  /\ inv' = r.ret
             /\ stations' = stations + r.calls
             /\ trace_ids' = ids
             /\ dayLog' = SetLast(dayLog, [Last(dayLog) EXCEPT !.meta =
                              IF r.read THEN "hit"
                              ELSE IF ~r.ret.some THEN "fail"
                              ELSE IF r.ret.data = <<>> THEN "empty" ELSE "ok"])
             /\ wpc' = IF r.raised THEN "raised"
                        ELSE IF ids # <<>> THEN "fetch" ELSE "advance"
    /\ cacheDir' = MakeCacheDir(cacheDir)
    /\ UNCHANGED <<wrapper, startt, endt, nDays, wArgs, iters, reads, writes>>
    /\ UNCHANGED <<keyVars, fetchVars, sgramVars>>

\* Lines 53-56: the waveform fetch and the archive write.
DayFetch ==
    /\ wpc = "fetch"
    /\ \E f \in StreamFiles, outs \in [1..Len(trace_ids) -> DayWaveOutcomes] :
         LET r == get_stream(trace_ids, wArgs.overwrite, FALSE, f, outs)
         IN  IF r.acc.raised
             THEN /\ wpc' = "raised"
                  /\ writes' = writes
                  /\ dayLog' = SetLast(dayLog, [Last(dayLog) EXCEPT !.stream = "raised"])
             ELSE /\ wpc' = "advance"
                  /\ writes' = writes + 1
                  /\ dayLog' = SetLast(dayLog, [Last(dayLog) EXCEPT
                                   !.stream = IF r.ret.data = <<>> THEN "empty" ELSE "data",
                                   !.wrote = TRUE])
    /\ cacheDir' = MakeCacheDir(cacheDir)
    /\ UNCHANGED <<wrapper, startt, endt, nDays, wArgs, trace_ids, inv, iters, reads, stations>>
    /\ UNCHANGED <<keyVars, fetchVars, sgramVars>>

\* Lines 97-108 of SDS_to_RSAM_wrapper: the loop test, the archive read and
\* the metric branch, whose first statement calls RSAMobj, a name wrappers.py
\* neither defines nor imports: NameError.
RsamRead ==
    /\ wrapper = "SDS_to_RSAM"
    /\ wpc = "head"
    /\ LoopTest(startt, endt)
    /\ \E rd \in ReadCodes :
         /\ reads' = reads + 1
         /\ dayLog' = Append(dayLog, [NoDay EXCEPT !.read = rd])
         /\ wpc' = IF rd = 0 \/ wArgs.overwrite THEN "raised" ELSE "advance"
    /\ UNCHANGED <<wrapper, startt, endt, nDays, wArgs, trace_ids, inv, iters, writes, stations>>
    /\ UNCHANGED <<cacheDir, keyVars, fetchVars, sgramVars>>

\* Lines 62 and 118: startt+=secsPerDay.
DayAdvance ==
    /\ wpc = "advance"
    /\ startt' = startt + secsPerDay
    /\ iters' = iters + 1
    /\ wpc' = "head"
    /\ UNCHANGED <<wrapper, endt, nDays, wArgs, trace_ids, inv, reads, writes, stations, dayLog>>
    /\ UNCHANGED <<cacheDir, keyVars, fetchVars, sgramVars>>

\* The loop test fails: the wrapper returns.
DayExit ==
    /\ wpc = "head"
    /\ ~LoopTest(startt, endt)
    /\ wpc' = "done"
    /\ UNCHANGED <<wrapper, startt, endt, nDays, wArgs, trace_ids, inv, iters, reads,
                   writes, stations, dayLog>>
    /\ UNCHANGED <<cacheDir, keyVars, fetchVars, sgramVars>>

----------------------------------------------------------------------------
(* The spectrogram window loops: wrappers.py lines 288-315 (the windows of *)
(* one day in SDS_to_ICEWEB_wrapper) and lines 148-178                     *)
(* (SDS_to_spectrogram_wrapper).  Windows are numbered from 0; window w    *)
(* has its own output file name, made from its start time.                 *)

\* Line 294: tw_st[0].stats.npts>1000.
MinNpts == 1000

\* The windowed stream: its number of segments and the sample count of the
\* first one.
WindowStreams ==
    {[len |-> 0, npts |-> 0]}
        \cup {[len |-> 1, npts |-> n] : n \in {0, MinNpts - 1, MinNpts, MinNpts + 1}}

\* Line 294: isinstance(tw_st, Stream) and len(tw_st)>0 and tw_st[0].stats.npts>1000
LongEnough(tw) == tw.len > 0 /\ tw.npts > MinNpts

\* Lines 174 and 306: not os.path.isfile(sgramfile) or overwrite
ShouldRender_always(fileState, overwrite) == TRUE
ShouldRender(fileState, overwrite) == fileState = "absent" \/ overwrite

NoWindow == [tw |-> [len |-> 0, npts |-> 0], before |-> "absent", skipped |-> FALSE,
             renders |-> 0]

SgramIdle ==
    /\ driver = "none" /\ spc = "idle" /\ sotw = 0 /\ nWin = 0 /\ sOverwrite = FALSE
    /\ sgFiles = <<>> /\ sgFiles0 = <<>> /\ winLog = <<>>

\* One window of SDS_to_ICEWEB_wrapper (lines 289-315).
IcewebWindow ==
    /\ driver = "SDS_to_ICEWEB"
    /\ spc = "loop"
    /\ sotw < nWin
    /\ \E tw \in WindowStreams :
         LET w == sotw + 1
             e == [NoWindow EXCEPT !.tw = tw, !.before = sgFiles[w]]
         IN  IF ~LongEnough(tw)
             THEN /\ winLog' = Append(winLog, [e EXCEPT !.skipped = TRUE])
                  /\ sgFiles' = sgFiles
             ELSE IF ShouldRender(sgFiles[w], sOverwrite)
             THEN /\ winLog' = Append(winLog, [e EXCEPT !.renders = 1])
                  /\ sgFiles' = [sgFiles EXCEPT ![w] = "rendered"]
             ELSE /\ winLog' = Append(winLog, e)
                  /\ sgFiles' = sgFiles
    /\ sotw' = sotw + 1
    /\ UNCHANGED <<driver, spc, nWin, sOverwrite, sgFiles0>>
    /\ UNCHANGED <<cacheDir, keyVars, fetchVars, dayVars>>

\* One window of SDS_to_spectrogram_wrapper (lines 151-178): no test of the
\* stream; st[0] (line 173) raises IndexError on an empty stream.
SpectrogramWindow ==
    /\ driver = "SDS_to_spectrogram"
    /\ spc = "loop"
    /\ sotw < nWin
    /\ \E tw \in WindowStreams :
         LET w == sotw + 1
             e == [NoWindow EXCEPT !.tw = tw, !.before = sgFiles[w]]
         IN  IF tw.len = 0
             THEN /\ winLog' = Append(winLog, e)
                  /\ sgFiles' = sgFiles
                  /\ spc' = "raised"
                  /\ sotw' = sotw
             ELSE /\ IF ShouldRender(sgFiles[w], sOverwrite)
                     THEN /\ winLog' = Append(winLog, [e EXCEPT !.renders = 1])
                          /\ sgFiles' = [sgFiles EXCEPT ![w] = "rendered"]
                     ELSE /\ winLog' = Append(winLog, e)
                          /\ sgFiles' = sgFiles
                  /\ spc' = spc
                  /\ sotw' = sotw + 1
    /\ UNCHANGED <<driver, nWin, sOverwrite, sgFiles0>>
    /\ UNCHANGED <<cacheDir, keyVars, fetchVars, dayVars>>

\* The window loop's test fails.
SgramExit ==
    /\ spc = "loop"
    /\ ~(sotw < nWin)
    /\ spc' = "done"
    /\ UNCHANGED <<driver, sotw, nWin, sOverwrite, sgFiles, sgFiles0, winLog>>
    /\ UNCHANGED <<cacheDir, keyVars, fetchVars, dayVars>>

----------------------------------------------------------------------------
(* SpecKey: the key builder applied to two requests.                       *)

KeyIdle ==
    /\ kKind = "none" /\ kReqA = NoReq /\ kReqB = NoReq
    /\ kNameA = NoName /\ kNameB = NoName /\ kRaised = FALSE

KeyStationXML ==
    /\ kKind = "stationXML"
    /\ kNameA = NoName /\ ~kRaised
    /\ IF MakeCacheDirRaises(cacheDir)
       THEN kRaised' = TRUE /\ UNCHANGED <<kNameA, kNameB>>
       ELSE /\ kNameA' = StationXMLName(kReqA.startt, kReqA.endt, kReqA.lat, kReqA.lon, kReqA.rad)
            /\ kNameB' = StationXMLName(kReqB.startt, kReqB.endt, kReqB.lat, kReqB.lon, kReqB.rad)
            /\ kRaised' = FALSE
    /\ cacheDir' = MakeCacheDir(cacheDir)
    /\ UNCHANGED <<kKind, kReqA, kReqB>>
    /\ UNCHANGED <<fetchVars, dayVars, sgramVars>>

KeyMSEED ==
    /\ kKind = "MSEED"
    /\ kNameA = NoName /\ ~kRaised
    /\ IF MakeCacheDirRaises(cacheDir)
       THEN kRaised' = TRUE /\ UNCHANGED <<kNameA, kNameB>>
       ELSE /\ kNameA' = MSEEDName(kReqA.startt, kReqA.endt, kReqA.ids)
            /\ kNameB' = MSEEDName(kReqB.startt, kReqB.endt, kReqB.ids)
            /\ kRaised' = FALSE
    /\ cacheDir' = MakeCacheDir(cacheDir)
    /\ UNCHANGED <<kKind, kReqA, kReqB>>
    /\ UNCHANGED <<fetchVars, dayVars, sgramVars>>

----------------------------------------------------------------------------
(* The specifications.                                                     *)

InitKey ==
    /\ cacheDir \in {"absent", "dir", "file"}
    /\ \/ /\ kKind = "stationXML"
          /\ kReqA \in {r \in SMLRequests : ValidRange(r)}
          /\ kReqB \in {r \in SMLRequests : ValidRange(r)}
       \/ /\ kKind = "MSEED"
          /\ kReqA \in {r \in MSEEDRequests : ValidRange(r)}
          /\ kReqB \in {r \in MSEEDRequests : ValidRange(r)}
    /\ kNameA = NoName /\ kNameB = NoName /\ kRaised = FALSE
    /\ FetchIdle /\ DayIdle /\ SgramIdle
NextKey == KeyStationXML \/ KeyMSEED
SpecKey == InitKey /\ [][NextKey]_vars

InitFetch ==
    /\ cacheDir \in {"absent", "dir"}
    /\ KeyIdle /\ FetchIdle /\ DayIdle /\ SgramIdle
NextFetch == InventoryCall \/ StreamCall \/ StreamIter \/ StreamReturn
SpecFetch == InitFetch /\ [][NextFetch]_vars

InitDay ==
    /\ cacheDir \in {"absent", "dir"}
    /\ wrapper \in {"FDSN_to_SDS_daily", "SDS_to_RSAM"}
    /\ wpc = "head"
    /\ nDays \in 0..MaxDays
    /\ startt = 0
    /\ endt = nDays * secsPerDay
    /\ wArgs \in [overwrite : BOOLEAN, trace_ids : DayTraceLists,
                   inv : {None} \cup {Some(v) : v \in Inventories \ {<<>>}}]
    /\ trace_ids = wArgs.trace_ids
    /\ inv = wArgs.inv
    /\ iters = 0 /\ reads = 0 /\ writes = 0 /\ stations = 0 /\ dayLog = <<>>
    /\ KeyIdle /\ FetchIdle /\ SgramIdle
NextDay == DayRead \/ DayMeta \/ DayFetch \/ RsamRead \/ DayAdvance \/ DayExit
SpecDay == InitDay /\ [][NextDay]_vars

SgramFileStates == {"absent", "old"}
InitSgram ==
    /\ cacheDir = "dir"
    /\ driver \in {"SDS_to_ICEWEB", "SDS_to_spectrogram"}
    /\ spc = "loop"
    /\ sotw = 0
    /\ nWin \in 1..MaxWin
    /\ sOverwrite \in BOOLEAN
    /\ sgFiles0 \in [1..nWin -> SgramFileStates]
    /\ sgFiles = sgFiles0
    /\ winLog = <<>>
    /\ KeyIdle /\ FetchIdle /\ DayIdle
NextSgram == IcewebWindow \/ SpectrogramWindow \/ SgramExit
SpecSgram == InitSgram /\ [][NextSgram]_vars

----------------------------------------------------------------------------
(* Claims about the fetchers (SpecFetch).                                  *)

Returned == fpc = "done" /\ fop \in {"inventory", "stream"}
CacheHit == fileBefore.exists /\ ~fArgs.overwrite
RemotePath == fop = "stream" /\ fArgs.ids # <<>> /\ ~CacheHit

\* C1: a call of get_inventory or get_stream that finds the cache file of its
\* derived name while overwrite is False returns the content of that file and
\* makes no call of get_stations / get_waveforms.
C1_CacheHitReturnsContent ==
    (Returned /\ CacheHit /\ (fop = "stream" => fArgs.ids # <<>>))
        => (~acc.raised /\ ret = Some(fileBefore.data) /\ acc.calls = 0)

\* C2: with overwrite True both fetchers go to the remote source although the
\* cache file exists: get_inventory has called get_stations once, get_stream
\* has called get_waveforms once for each identifier of the list, in order,
\* and the cache file was not read.
C2_OverwriteGoesRemote ==
    (Returned /\ fArgs.overwrite)
        => /\ ~readFile
           /\ fop = "inventory" => acc.calls = 1 /\ remote # NotCalled
           /\ fop = "stream" => acc.asked = fArgs.ids /\ acc.calls = Len(fArgs.ids)

C2_Witness ==
    /\ Returned /\ fop = "stream" /\ fArgs.overwrite /\ fileBefore.exists
    /\ Len(fArgs.ids) >= 2 /\ acc.calls = Len(fArgs.ids) /\ ~readFile

\* C3: on the remote path of get_stream no exception propagates, get_waveforms
\* is called for every identifier of the list whichever calls fail, and the
\* returned collection has the data of every identifier whose query returned
\* data.
C3_FailuresAreIsolated ==
    (Returned /\ RemotePath)
        => /\ ~acc.raised
           /\ acc.asked = fArgs.ids
           /\ \A id \in acc.got : \E i \in 1..Len(ret.data) : ret.data[i].id = id

\* C4: when a merge of get_stream fails on differing sampling rates, in the
\* pass of one identifier or in the pass over the whole collection, the call
\* does not raise and every segment of the collection being merged ends with
\* the mean of the sampling rates that collection's segments had.
C4_RepairGivesMeanRate ==
    (fop = "stream" /\ acc.repair.pass # "none")
        => /\ ~acc.raised
           /\ \A i \in 1..Len(acc.repair.outRates) :
                  acc.repair.outRates[i] = nanmean(acc.repair.inRates)

InitFetchDay == InitFetch \/ InitDay
NextFetchDay == NextFetch \/ NextDay
SpecFetchDay == InitFetchDay /\ [][NextFetchDay]_vars

----------------------------------------------------------------------------
(* Claims about the day loops (SpecDay, SpecFetchDay).                     *)

WrapperEnded == wpc \in {"done", "raised"}
WroteOn(d) == d <= Len(dayLog) /\ dayLog[d].wrote

\* C5: a day-loop wrapper run over nDays whole days makes exactly nDays
\* iterations, each with one archive read and (FDSN_to_SDS_daily_wrapper) one
\* archive write, moves the pointer by 86400 s per iteration whichever branch
\* ran, and returns when the pointer has reached the end time.
C5_OnceADay ==
    /\ wrapper # "none" => startt = iters * 86400
    /\ (wrapper # "none" /\ WrapperEnded)
         => /\ wpc = "done"
            /\ iters = nDays /\ reads = nDays /\ startt >= endt
            /\ wrapper = "FDSN_to_SDS_daily" => writes = nDays

\* The run C6 is about: two days, overwrite, neither trace_ids nor inv given.
C6_Run ==
    /\ wrapper = "FDSN_to_SDS_daily" /\ nDays = 2 /\ wArgs.overwrite
    /\ wArgs.trace_ids = <<>> /\ wArgs.inv = None

\* C6 as stated: that run makes exactly 2 get_stations calls, one per day,
\* and writes the archive on both days, whatever the first day fetched.
C6_TwoCallsTwoWrites ==
    (C6_Run /\ WrapperEnded)
        => wpc = "done" /\ stations = 2 /\ WroteOn(1) /\ WroteOn(2)

\* The days of the log on which a channel list is known: the metadata query
\* of that day or of an earlier day returned a non-empty inventory.
IdsKnownOn(d) == \E k \in 1..d : dayLog[k].meta = "ok"

\* C6 as amended: in that run get_stations is called on day 1, and again on
\* day 2 only if day 1 gave no channel list (its query failed or its
\* inventory was empty): 1 call after a successful first day, 2 otherwise.
\* When the run returns, the archive has been written exactly on the days on
\* which a channel list was known, whether or not get_stream returned data.
C6_CallsUntilIdsKnown ==
    C6_Run =>
        /\ stations <= 2
        /\ \A d \in 1..Len(dayLog) : dayLog[d].wrote => IdsKnownOn(d)
        /\ wpc = "done" =>
              /\ Len(dayLog) = 2
              /\ dayLog[1].meta \in {"ok", "empty", "fail"}
              /\ stations = IF dayLog[1].meta = "ok" THEN 1 ELSE 2
              /\ dayLog[2].meta = "none" <=> dayLog[1].meta = "ok"
              /\ \A d \in 1..2 : dayLog[d].wrote <=> IdsKnownOn(d)
              /\ \A d \in 1..2 : dayLog[d].wrote <=> dayLog[d].stream \in {"empty", "data"}

C6_Witness ==
    /\ C6_Run /\ wpc = "done" /\ stations = 2
    /\ dayLog[1].meta = "fail" /\ ~dayLog[1].wrote
    /\ dayLog[2].meta = "ok" /\ dayLog[2].wrote /\ dayLog[2].stream = "empty"

\* The metadata step of day d is over.
MetaDecided(d) == d < Len(dayLog) \/ wpc # "meta"

\* What get_inventory does when get_stations raises: None, no exception, the
\* cache file as it was.
C10_FailedQueryGivesNone ==
    (fop = "inventory" /\ Returned /\ remote # NotCalled /\ ~remote.ok)
        => ret = None /\ ~acc.raised /\ file = fileBefore

\* What the wrapper does on a day whose metadata query failed: no waveform
\* fetch, no write, nothing raised on that day, and a run that returns has
\* gone through every day of the range.
C10_FailedDayIsSkipped ==
    \A d \in 1..Len(dayLog) :
        dayLog[d].meta = "fail"
            => /\ dayLog[d].stream = "none" /\ ~dayLog[d].wrote
               /\ d = Len(dayLog) => wpc \in {"advance", "head", "done"}
               /\ wpc = "done" => Len(dayLog) = nDays /\ iters = nDays

\* C10 as stated: ... and the day after a failed one queries metadata again.
C10_NextDayQueriesAgain ==
    /\ C10_FailedQueryGivesNone
    /\ C10_FailedDayIsSkipped
    /\ \A d \in 1..Len(dayLog) :
          (dayLog[d].meta = "fail" /\ d < Len(dayLog) /\ MetaDecided(d + 1))
              => dayLog[d + 1].meta # "none"

\* C10 as amended: when get_stations raises, get_inventory returns None, lets
\* no exception out and leaves the cache file as it was; the wrapper makes no
\* waveform fetch and no archive write on that day, moves on to the next day,
\* and calls get_inventory again on the next day exactly if that day takes
\* the fetch branch (non-zero archive read, or overwrite).
C10_NextFetchDayQueriesAgain ==
    /\ C10_FailedQueryGivesNone
    /\ C10_FailedDayIsSkipped
    /\ \A d \in 1..Len(dayLog) :
          (dayLog[d].meta = "fail" /\ d < Len(dayLog) /\ MetaDecided(d + 1))
              => (dayLog[d + 1].meta # "none"
                    <=> Fallback(dayLog[d + 1].read, wArgs.overwrite))

C10_Witness ==
    /\ wrapper = "FDSN_to_SDS_daily" /\ wpc = "done" /\ nDays = 2
    /\ dayLog[1].meta = "fail" /\ ~dayLog[1].wrote
    /\ dayLog[2].meta = "ok" /\ dayLog[2].wrote

----------------------------------------------------------------------------
(* Claims about the cache writes and the accumulation of get_stream        *)
(* (SpecFetch), and about the write of an empty day (SpecDay).             *)

\* The call did not take the cache branch (and, for get_stream, got past the
\* file name).
TookRemotePath == ~CacheHit /\ (fop = "stream" => fArgs.ids # <<>>)
\* The fetch produced a result: get_stations returned an inventory, or
\* get_stream returned a non-empty collection.
ProducedResult ==
    IF fop = "inventory" THEN remote # NotCalled /\ remote.ok
    ELSE ret.some /\ ret.data # <<>>

\* C11: a call of get_inventory or get_stream leaves its cache file holding
\* what it returns if it took the remote path with the cache flag set and the
\* fetch produced a result; in every other case (cache hit, cache=False,
\* failed metadata query, empty collection, an exception) the file is as it
\* was before the call, and no file is written before the call ends.
C11_WritesOnlyCachedRemoteResult ==
    /\ fpc = "loop" => file = fileBefore
    /\ Returned =>
          IF TookRemotePath /\ fArgs.cache /\ ProducedResult
          THEN file = Stored(ret.data)
          ELSE file = fileBefore

C11_Witness ==
    /\ Returned /\ fop = "stream" /\ fArgs.cache /\ fArgs.overwrite
    /\ fileBefore.exists /\ ret.some /\ ret.data # <<>>
    /\ file = Stored(ret.data) /\ file # fileBefore

\* C12: in the identifier loop of get_stream the collection st has a segment
\* of every identifier whose query returned data so far, those whose first
\* merge raised and were repaired included.
C12_RepairedResultsAccumulated ==
    (fop = "stream" /\ fpc = "loop")
        => \A id \in acc.got : \E i \in 1..Len(acc.st) : acc.st[i].id = id

\* C13: on a day of FDSN_to_SDS_daily_wrapper on which get_stream returned an
\* empty collection the archive write is not called.
C13_EmptyDayNotWritten ==
    wrapper = "FDSN_to_SDS_daily"
        => \A d \in 1..Len(dayLog) : dayLog[d].stream = "empty" => ~dayLog[d].wrote

----------------------------------------------------------------------------
(* Claims about the spectrogram window loops (SpecSgram).                  *)

\* C7: a window is skipped, with no render and no exception, exactly when its
\* windowed stream is empty or its segment has fewer than 1000 samples; a
\* window of 1000 samples or more goes on to the output-file test; either
\* way the loop moves on to the next window.
C7_ShortWindowsSkipped ==
    /\ spc # "raised"
    /\ Len(winLog) = sotw
    /\ \A w \in 1..Len(winLog) :
          /\ winLog[w].skipped <=> (winLog[w].tw.len = 0 \/ winLog[w].tw.npts < 1000)
          /\ winLog[w].skipped => winLog[w].renders = 0 /\ sgFiles[w] = sgFiles0[w]

\* C8: a window whose output file exists while overwrite is False gets no
\* render call and its file stays as it was; a window is rendered only if its
\* file is absent or overwrite is True, at most once, and the files of the
\* windows not rendered are untouched.
C8_ExistingFilesKept ==
    /\ Len(winLog) <= nWin
    /\ \A w \in 1..Len(winLog) :
          /\ winLog[w].before = sgFiles0[w]
          /\ (winLog[w].before = "old" /\ ~sOverwrite)
                => winLog[w].renders = 0 /\ sgFiles[w] = "old"
          /\ winLog[w].renders >= 1 => winLog[w].before = "absent" \/ sOverwrite
          /\ winLog[w].renders <= 1
          /\ winLog[w].renders = 0 <=> sgFiles[w] = sgFiles0[w]
    /\ \A w \in (Len(winLog) + 1)..nWin : sgFiles[w] = sgFiles0[w]

C8_Witness ==
    /\ spc = "done" /\ nWin >= 2 /\ ~sOverwrite
    /\ winLog[1].before = "old" /\ winLog[1].tw.npts > MinNpts
    /\ winLog[1].renders = 0 /\ sgFiles[1] = "old"
    /\ winLog[2].before = "absent" /\ winLog[2].renders = 1

----------------------------------------------------------------------------
(* Claims about the cache key builder (SpecKey).                           *)

KeysBuilt == kNameA # NoName /\ kNameB # NoName
Minute(t) == t \div 60
SameMinutes == /\ Minute(kReqA.startt) = Minute(kReqB.startt)
               /\ Minute(kReqA.endt) = Minute(kReqB.endt)
\* The printed form of two values is the same: the same rounded number and
\* the same sign character.
SamePrinted(a, b) == RoundVal(a) = RoundVal(b) /\ (a < 0 <=> b < 0)

\* The waveform key of C9: equal inputs give equal names, ranges that differ
\* in a minute give different names, and only the first and the last
\* identifier of the list count.
C9_MSEEDKey ==
    (kKind = "MSEED" /\ KeysBuilt)
        => /\ kReqA = kReqB => kNameA = kNameB
           /\ ~SameMinutes => kNameA # kNameB
           /\ (/\ SameMinutes
               /\ kReqA.ids[1] = kReqB.ids[1]
               /\ kReqA.ids[Len(kReqA.ids)] = kReqB.ids[Len(kReqB.ids)])
                 => kNameA = kNameB

\* C9 as stated: two metadata requests get the same file name if and only if
\* their minute-truncated times and their rounded latitude, longitude (4
\* decimals) and radius (2 decimals) are equal; and the waveform key.
C9_SameNameIffSameRounded ==
    /\ C9_MSEEDKey
    /\ (kKind = "stationXML" /\ KeysBuilt)
          => (kNameA = kNameB
                <=> /\ SameMinutes
                    /\ RoundVal(kReqA.lat) = RoundVal(kReqB.lat)
                    /\ RoundVal(kReqA.lon) = RoundVal(kReqB.lon)
                    /\ RoundVal(kReqA.rad) = RoundVal(kReqB.rad))

\* C9 as amended: two metadata requests get the same file name if and only
\* if their minute-truncated times and the printed forms (%.4f, %.4f, %.2f)
\* of latitude, longitude and radius are equal; a negative value that rounds
\* to zero prints as -0.0000, which is not the name of 0.0000.  The waveform
\* key as stated.
C9_SameNameIffSamePrinted ==
    /\ C9_MSEEDKey
    /\ (kKind = "stationXML" /\ KeysBuilt)
          => (kNameA = kNameB
                <=> /\ SameMinutes
                    /\ SamePrinted(kReqA.lat, kReqB.lat)
                    /\ SamePrinted(kReqA.lon, kReqB.lon)
                    /\ SamePrinted(kReqA.rad, kReqB.rad))

C9_Witness ==
    /\ kKind = "stationXML" /\ KeysBuilt
    /\ kReqA.startt # kReqB.startt /\ kReqA.lat # kReqB.lat /\ kReqA.lat < 0
    /\ kNameA = kNameB

====
